---- MODULE Spec2Model ----
(***************************************************************************)
(* Verification model of the recording hook of the transcript app          *)
(* (frontend/src/hooks/use-audio-recorder.ts): the refs and React state of *)
(* useAudioRecorder, its operations startRecording, stopRecording and      *)
(* cancelRecording, and the browser objects they drive (getUserMedia,      *)
(* MediaStream tracks, MediaRecorder, requestAnimationFrame, setInterval,  *)
(* setTimeout).  Every action is one task of the single-threaded event     *)
(* loop: a call made by the component, or the continuation / callback the  *)
(* browser runs later.                                                     *)
(*                                                                         *)
(* The second part models the chat exchange: streamChatMessage and         *)
(* sendChatMessage (frontend/src/lib/api-client.ts) and the ChatbotPanel   *)
(* component that drives them (frontend/src/components/chatbot-panel.tsx). *)
(* The two parts share no state; Spec runs the recorder, SpecChat the chat.*)
(* SpecDecoder runs the read loop alone on every response body,            *)
(* SpecAnalysis the volume / waveform analysis on every magnitude array,   *)
(* SpecPushToTalk the recorder as driven by the V key of TranscriptPanel   *)
(* (frontend/src/components/transcript-panel.tsx); SpecTimers and          *)
(* SpecChatLive add the fairness of timers and of network completions.     *)
(***************************************************************************)
EXTENDS Integers, Sequences, FiniteSets, TLC

\* ---------------------------------------------------------------- bounds
\* start requests that pass the guard of startRecording (getUserMedia calls)
MaxStarts == 2
\* calls of stopRecording
MaxStops == 2
\* segments one MediaRecorder delivers (periodic ones and the final one)
MaxSegs == 3
\* cap of the elapsed-seconds counter
MaxTime == 1
\* messages submitted in the chat panel
MaxSends == 2
\* lines of a response body the decoder is run on
MaxLines == 3
\* lines of the response body of a chat exchange
MaxChatLines == 2
\* transcript selections (hash changes) in the chat panel
MaxNav == 1

\* ------------------------------------------------------- program constants
\* Array(32): the number of waveform bars
WaveformBars == 32
\* analyser.fftSize
FftSize == 64
\* analyser.frequencyBinCount = fftSize / 2: length of dataArray
BufferLength == FftSize \div 2

NULL == 0
\* error === null
NoError == <<>>
\* no exception was thrown
NoException == [name |-> "none", message |-> ""]
\* no analysis tick has run yet
NoTick == [ran |-> FALSE, stream |-> FALSE, encoder |-> FALSE, data |-> <<>>]
Requests == 1..MaxStarts
StopCalls == 1..MaxStops

VARIABLES
  \* React state (useState): the value the next render will show
  isRecording, isStarting, error, recordingTime, volume, waveformData,
  \* refs (useRef)
  mediaRecorderRef, streamRef, chunksRef, isStartCancelledRef,
  audioContextRef, analyserRef, animationFrameRef, timerRef,
  \* the component is mounted
  mounted,
  \* browser: getUserMedia calls, by start request, and the exception a
  \* rejected one threw
  nReq, acq, gumCalls, gumError,
  \* browser: streams whose tracks are live; number of track.stop() rounds per stream
  live, stopCount,
  \* browser: MediaRecorder objects (one per stream that got one), their
  \* queued "dataavailable + stop" task, their onstop handler, what they delivered
  recState, stopTask, onstop, delivered,
  \* browser: scheduled requestAnimationFrame callbacks (by analysis loop),
  \* live setInterval timers
  frames, intervals,
  \* stopRecording calls: their promise, its value, their 1 s failsafe timer
  nStop, promise, blobOf, failsafe,
  \* history: requests cancelled while their acquisition was pending; what the
  \* last analysis tick saw and read; cancelRecording ran and no start request since
  cancelledReq, tickLog, afterCancel,
  \* TranscriptPanel (push-to-talk): the V key is held; isKeyDownRef; the
  \* isProcessing and isCleaningWithLLM state; for each stopRecording call
  \* made by the keyup handler, how far its await and its uploadAudio are
  keyHeld, isKeyDownRef, isProcessing, isCleaningWithLLM, upload

stateVars == <<isRecording, isStarting, error, recordingTime, volume, waveformData>>
refVars == <<mediaRecorderRef, streamRef, chunksRef, isStartCancelledRef,
             audioContextRef, analyserRef, animationFrameRef, timerRef>>
envVars == <<nReq, acq, gumCalls, gumError, live, stopCount, recState, stopTask, onstop,
             delivered, frames, intervals, nStop, promise, blobOf, failsafe>>
pttVars == <<keyHeld, isKeyDownRef, isProcessing, isCleaningWithLLM, upload>>
recVars == <<stateVars, refVars, envVars, pttVars, mounted, cancelledReq, tickLog,
             afterCancel>>

Exchanges == 1..MaxSends

VARIABLES
  \* ChatbotPanel state (useState)
  messages, loading, streamingContent, currentTranscript,
  \* ChatbotPanel refs (useRef)
  abortRef, currentTranscriptIdRef,
  \* the panel is mounted; the loading value the closures of the last render hold
  chatMounted, renderedLoading,
  \* submitted messages; transcript selections; getTranscriptById calls pending
  nSend, nNav, loadPending,
  \* the exchanges: for each, the closure of send, the locals of the async
  \* function of streamChatMessage, the response body and the fallback call,
  \* and (history) the callbacks made and the assistant messages appended
  exch

chatVars == <<messages, loading, streamingContent, currentTranscript, abortRef,
              currentTranscriptIdRef, chatMounted, renderedLoading,
              nSend, nNav, loadPending, exch>>
vars == <<recVars, chatVars>>

\* ---------------------------------------------------------------- helpers
RECURSIVE SumSeq(_)
SumSeq(s) == IF s = <<>> THEN 0 ELSE Head(s) + SumSeq(Tail(s))

\* new Blob(parts): the bytes of the parts, in order
RECURSIVE Blob(_)
Blob(parts) == IF parts = <<>> THEN <<>> ELSE Head(parts) \o Blob(Tail(parts))

\* Array(32).fill(0)
ZeroWaveform == [i \in 1..WaveformBars |-> 0]

RECURSIVE Gcd(_, _)
Gcd(a, b) == IF b = 0 THEN a ELSE Gcd(b, a % b)

\* A non-negative fraction num/den (den > 0) in lowest terms: the published
\* volume is a fraction of the magnitudes, kept exact.
Ratio(num, den) == [num |-> num \div Gcd(num, den), den |-> den \div Gcd(num, den)]
RatioLeq(a, b) == a.num * b.den <= b.num * a.den

\* the volume without Math.min
VolumeUnclamped(dataArray) ==
  Ratio(SumSeq(dataArray) * 100 * 2, Len(dataArray) * 255)

\* Math.min(100, (average / 255) * 100 * 2) with average = sum / bufferLength
Volume(dataArray) ==
  LET raw == Ratio(SumSeq(dataArray) * 100 * 2, Len(dataArray) * 255)
  IN IF RatioLeq(Ratio(100, 1), raw) THEN Ratio(100, 1) ELSE raw

\* the waveform that takes the first 32 samples, whatever the length
WaveformNoStride(dataArray) ==
  [i \in 1..WaveformBars |-> IF i <= Len(dataArray) THEN dataArray[i] ELSE 0]

\* Array(32).fill(0).map((_, i) => dataArray[i * step] || 0) with
\* step = Math.floor(bufferLength / 32); an index past the end reads undefined
Waveform(dataArray) ==
  LET step == Len(dataArray) \div WaveformBars
  IN [i \in 1..WaveformBars |->
        IF (i - 1) * step + 1 <= Len(dataArray)
        THEN dataArray[(i - 1) * step + 1] ELSE 0]

\* getByteFrequencyData: the magnitudes (0..255) an analysis tick may read
FrequencyData ==
  {[i \in 1..BufferLength |-> 0], [i \in 1..BufferLength |-> 255]}

\* The lengths of dataArray the analysis is run on: frequencyBinCount of the
\* build (fftSize 64), and longer ones, a multiple of the number of bars or not.
BinCounts == {BufferLength, BufferLength + BufferLength \div 2, 2 * BufferLength}
\* the magnitudes at which the arrays are cut in two levels
Levels == {0, 127, 128, 255}
Cuts == {0, 1, BufferLength \div 2, BufferLength - 1}
\* The magnitude arrays the analysis is run on: arrays of two levels (all
\* zero and all 255 among them), and ramps, whose samples all differ from
\* their neighbours.
Magnitudes ==
  UNION {{[i \in 1..len |-> IF i <= cut THEN a ELSE b] :
            cut \in Cuts, a \in Levels, b \in Levels}
         \cup {[i \in 1..len |-> (i * m) % 256] : m \in {1, 7}} :
         len \in BinCounts}

\* The part of the hook and of the browser that a handler reads and writes,
\* as one record, so that the statements of a handler compose in order.
Cur ==
  [isRecording |-> isRecording, isStarting |-> isStarting, error |-> error,
   recordingTime |-> recordingTime, volume |-> volume, waveformData |-> waveformData,
   mediaRecorderRef |-> mediaRecorderRef, streamRef |-> streamRef,
   chunksRef |-> chunksRef, isStartCancelledRef |-> isStartCancelledRef,
   audioContextRef |-> audioContextRef, analyserRef |-> analyserRef,
   animationFrameRef |-> animationFrameRef, timerRef |-> timerRef,
   live |-> live, stopCount |-> stopCount, recState |-> recState,
   stopTask |-> stopTask, frames |-> frames, intervals |-> intervals,
   promise |-> promise, blobOf |-> blobOf, tickLog |-> tickLog]

\* Writes the record back.  A state setter of an unmounted component does
\* nothing; refs and browser objects are written regardless.
Commit(t) ==
  /\ isRecording' = IF mounted THEN t.isRecording ELSE isRecording
  /\ isStarting' = IF mounted THEN t.isStarting ELSE isStarting
  /\ error' = IF mounted THEN t.error ELSE error
  /\ recordingTime' = IF mounted THEN t.recordingTime ELSE recordingTime
  /\ volume' = IF mounted THEN t.volume ELSE volume
  /\ waveformData' = IF mounted THEN t.waveformData ELSE waveformData
  /\ mediaRecorderRef' = t.mediaRecorderRef
  /\ streamRef' = t.streamRef
  /\ chunksRef' = t.chunksRef
  /\ isStartCancelledRef' = t.isStartCancelledRef
  /\ audioContextRef' = t.audioContextRef
  /\ analyserRef' = t.analyserRef
  /\ animationFrameRef' = t.animationFrameRef
  /\ timerRef' = t.timerRef
  /\ live' = t.live
  /\ stopCount' = t.stopCount
  /\ recState' = t.recState
  /\ stopTask' = t.stopTask
  /\ frames' = t.frames
  /\ intervals' = t.intervals
  /\ promise' = t.promise
  /\ blobOf' = t.blobOf
  /\ tickLog' = t.tickLog

\* stream.getTracks().forEach(track => track.stop()) on stream n.  A
\* MediaRecorder still recording a stream whose tracks have all ended is
\* inactivated by the browser, which queues its final dataavailable + stop.
StopTracks(t, n) ==
  [t EXCEPT !.live = @ \ {n},
            !.stopCount = [@ EXCEPT ![n] = @ + 1],
            !.recState = [@ EXCEPT ![n] = IF @ = "recording" THEN "inactive" ELSE @],
            !.stopTask = IF t.recState[n] = "recording" THEN @ \cup {n} ELSE @]

\* cleanup() that forgets mediaRecorderRef.current = null
cleanupKeepsRecorder(t) ==
  LET a == IF t.streamRef # NULL
           THEN [StopTracks(t, t.streamRef) EXCEPT !.streamRef = NULL]
           ELSE t
      b == IF a.animationFrameRef # NULL
           THEN [a EXCEPT !.frames = @ \ {a.animationFrameRef},
                          !.animationFrameRef = NULL]
           ELSE a
      c == IF b.timerRef # NULL
           THEN [b EXCEPT !.intervals = @ \ {b.timerRef}, !.timerRef = NULL]
           ELSE b
  IN [c EXCEPT !.audioContextRef = NULL, !.analyserRef = NULL]

\* cleanup(): release the stream, the audio context, the animation frame and
\* the interval held by the refs, and null the refs.
cleanup(t) ==
  LET a == IF t.streamRef # NULL
           THEN [StopTracks(t, t.streamRef) EXCEPT !.streamRef = NULL]
           ELSE t
      b == IF a.audioContextRef # NULL
           THEN [a EXCEPT !.audioContextRef = NULL]
           ELSE a
      c == IF b.animationFrameRef # NULL
           THEN [b EXCEPT !.frames = @ \ {b.animationFrameRef},
                          !.animationFrameRef = NULL]
           ELSE b
      d == IF c.timerRef # NULL
           THEN [c EXCEPT !.intervals = @ \ {c.timerRef}, !.timerRef = NULL]
           ELSE c
  IN [d EXCEPT !.mediaRecorderRef = NULL, !.analyserRef = NULL]

\* ------------------------------------------------------ chat: constants
\* line.startsWith("event: ") and line.startsWith("data: ")
EventMarker == <<"e", "v", "e", "n", "t", ":", " ">>
DataMarker == <<"d", "a", "t", "a", ":", " ">>
\* the reserved event names, and the initial one
DoneName == <<"d", "o", "n", "e">>
ErrorName == <<"e", "r", "r", "o", "r">>
MessageName == <<"m", "e", "s", "s", "a", "g", "e">>
Hello == <<"H", "e", "l", "l", "o">>
World == <<"W", "o", "r", "l", "d">>

\* The lines a response body is made of.  kind, name and payload say what
\* the line is on the wire format; bytes is what the server sends for it
\* (without the line feed).  "C3" "A9" are the two bytes of one character.
WireLines ==
  << [kind |-> "data", name |-> <<>>, payload |-> Hello,
      bytes |-> DataMarker \o Hello],
     [kind |-> "data", name |-> <<>>, payload |-> World,
      bytes |-> DataMarker \o World],
     [kind |-> "event", name |-> DoneName, payload |-> <<>>,
      bytes |-> EventMarker \o DoneName],
     [kind |-> "event", name |-> ErrorName, payload |-> <<>>,
      bytes |-> EventMarker \o ErrorName],
     [kind |-> "data", name |-> <<>>, payload |-> <<"U+00E9">>,
      bytes |-> DataMarker \o <<"C3", "A9">>],
     [kind |-> "data", name |-> <<>>, payload |-> <<>>,
      bytes |-> DataMarker],
     [kind |-> "event", name |-> MessageName, payload |-> <<>>,
      bytes |-> EventMarker \o MessageName \o <<" ">>],
     [kind |-> "other", name |-> <<>>, payload |-> <<>>,
      bytes |-> <<>>] >>

\* the response bodies the decoder is run on: up to MaxLines lines of
\* WireLines, each ended by a line feed
Bodies == UNION {[1..n -> 1..Len(WireLines)] : n \in 0..MaxLines}

\* the response bodies the server answers a chat exchange with: up to
\* MaxChatLines lines among the two data lines and the two reserved events
ChatLines == {i \in 1..Len(WireLines) :
                \/ WireLines[i].payload \in {Hello, World}
                \/ WireLines[i].name \in {DoneName, ErrorName}}
ChatBodies == UNION {[1..n -> ChatLines] : n \in 0..MaxChatLines}

RECURSIVE BodyBytes(_)
BodyBytes(body) ==
  IF body = <<>> THEN <<>>
  ELSE WireLines[Head(body)].bytes \o <<"\n">> \o BodyBytes(Tail(body))

\* input.trim(): empty, or a question
Texts == {<<>>, <<"q">>}
\* the transcripts the hash can select (their ids; NULL: none)
TranscriptIds == {1}
\* what makes streamChatMessage fail before the first read: fetch rejects,
\* the status is not ok (the thrown message), or the response has no body
OpenErrors == {<<"Failed to fetch">>, <<"HTTP error: ", "500">>, <<"No response body">>}
\* the message of the error reader.read() rejects with on a transport failure
ReadError == <<"network error">>
\* data.reply of the non-streamed call, and the message of its failure
FallbackReplies == {<<"R", "e", "p", "l", "y">>}
FallbackErrors == {<<"Request failed">>}

\* new TextDecoder(), buffer = "", currentEvent = "message"
NewDecoder ==
  [pending |-> "", buffer |-> <<>>, currentEvent |-> MessageName,
   status |-> "reading", emitted |-> <<>>]

\* no exchange in this slot
NoExchange ==
  [phase |-> "none", text |-> <<>>, options |-> NULL, fullResponse |-> <<>>,
   body |-> <<>>, pos |-> 0, decoder |-> NewDecoder, aborted |-> FALSE,
   ended |-> "no", calls |-> <<>>, requests |-> <<>>, appended |-> <<>>]

ChatInit ==
  /\ messages = <<>> /\ loading = FALSE /\ streamingContent = <<>>
  /\ currentTranscript = NULL /\ abortRef = NULL /\ currentTranscriptIdRef = NULL
  /\ chatMounted = TRUE /\ renderedLoading = FALSE
  /\ nSend = 0 /\ nNav = 0 /\ loadPending = {}
  /\ exch = [e \in Exchanges |-> NoExchange]

\* ------------------------------------------------------------------- Init
RecorderInit ==
  /\ isRecording = FALSE /\ isStarting = FALSE /\ error = NoError
  /\ recordingTime = 0 /\ volume = Ratio(0, 1) /\ waveformData = ZeroWaveform
  /\ mediaRecorderRef = NULL /\ streamRef = NULL /\ chunksRef = <<>>
  /\ isStartCancelledRef = FALSE /\ audioContextRef = NULL /\ analyserRef = NULL
  /\ animationFrameRef = NULL /\ timerRef = NULL
  /\ mounted = TRUE
  /\ nReq = 0 /\ acq = [n \in Requests |-> "none"] /\ gumCalls = [n \in Requests |-> 0]
  /\ gumError = [n \in Requests |-> NoException]
  /\ live = {} /\ stopCount = [n \in Requests |-> 0]
  /\ recState = [n \in Requests |-> "none"] /\ stopTask = {}
  /\ onstop = [n \in Requests |-> NULL] /\ delivered = [n \in Requests |-> <<>>]
  /\ frames = {} /\ intervals = {}
  /\ nStop = 0 /\ promise = [k \in StopCalls |-> "none"]
  /\ blobOf = [k \in StopCalls |-> <<>>] /\ failsafe = [k \in StopCalls |-> "none"]
  /\ cancelledReq = {} /\ tickLog = NoTick /\ afterCancel = FALSE
  /\ keyHeld = FALSE /\ isKeyDownRef = FALSE
  /\ isProcessing = FALSE /\ isCleaningWithLLM = FALSE
  /\ upload = [k \in StopCalls |-> "none"]

Init == RecorderInit /\ ChatInit

\* ---------------------------------------------------------------- actions
\* startRecording up to its await: the guard, the state resets and the
\* getUserMedia call.  The component re-renders between two tasks, so the
\* isRecording and isStarting a callback captured (useCallback deps) are the
\* current ones.
startRecording ==
  /\ mounted
  /\ nReq < MaxStarts
  /\ ~(isRecording \/ isStarting)
  /\ LET n == nReq + 1 IN
       /\ nReq' = n
       /\ acq' = [acq EXCEPT ![n] = "pending"]
       /\ gumCalls' = [gumCalls EXCEPT ![n] = @ + 1]
       /\ Commit([Cur EXCEPT !.isStarting = TRUE, !.error = NoError,
                             !.isStartCancelledRef = FALSE])
  /\ afterCancel' = FALSE
  /\ UNCHANGED <<chatVars, pttVars, gumError, mounted, onstop, delivered, nStop, failsafe, cancelledReq>>

\* updateAnalysis without its analyserRef guard
updateAnalysisNoGuard(t, n, dataArray) ==
  [t EXCEPT !.volume = Volume(dataArray),
            !.waveformData = Waveform(dataArray),
            !.frames = @ \cup {n},
            !.animationFrameRef = n,
            !.tickLog = [ran |-> TRUE, stream |-> t.streamRef # NULL,
                         encoder |-> t.mediaRecorderRef # NULL,
                         data |-> dataArray]]

\* updateAnalysis of analysis loop n, reading dataArray: publish volume and
\* waveform and schedule the next frame, unless the analyser is gone.
updateAnalysis(t, n, dataArray) ==
  IF t.analyserRef = NULL
  THEN t
  ELSE [t EXCEPT !.volume = Volume(dataArray),
                 !.waveformData = Waveform(dataArray),
                 !.frames = @ \cup {n},
                 !.animationFrameRef = n,
                 !.tickLog = [ran |-> TRUE, stream |-> t.streamRef # NULL,
                              encoder |-> t.mediaRecorderRef # NULL,
                              data |-> dataArray]]

\* setupAudioAnalysis(stream n): create context, analyser and source and run
\* the first updateAnalysis; a failure is caught inside and leaves the refs.
setupAudioAnalysis(t, n, supported, dataArray) ==
  IF supported
  THEN updateAnalysis([t EXCEPT !.audioContextRef = n, !.analyserRef = n],
                      n, dataArray)
  ELSE t

\* "Microphone access denied: " + msg with the message dropped
DeniedErrorNoMessage(msg) == <<"Microphone access denied: ", "Unknown error">>

\* "Microphone access denied: " + msg
DeniedError(msg) == <<"Microphone access denied: ", msg>>

\* The body of startRecording after getUserMedia resolved with stream n
\* (lines 129-159), with its catch and finally.  encoder says whether
\* new MediaRecorder(stream) and mediaRecorder.start(100) succeed.
startContinuation(t, n, supported, dataArray, encoder) ==
  IF t.isStartCancelledRef
  THEN [StopTracks(t, n) EXCEPT !.isStarting = FALSE]
  ELSE
    LET a == setupAudioAnalysis([t EXCEPT !.streamRef = n], n, supported, dataArray)
        created == [a EXCEPT !.mediaRecorderRef = n, !.chunksRef = <<>>,
                             !.recState = [@ EXCEPT ![n] = "inactive"]]
        started == [created EXCEPT !.recState = [@ EXCEPT ![n] = "recording"],
                                   !.isRecording = TRUE,
                                   !.recordingTime = 0,
                                   !.timerRef = n,
                                   !.intervals = @ \cup {n}]
        failed(x) == cleanup([x EXCEPT !.error = DeniedError("encoder")])
        b == CASE encoder = "ok" -> started
               [] encoder = "ctorThrows" -> failed(a)
               [] encoder = "startThrows" -> failed(created)
    IN [b EXCEPT !.isStarting = FALSE]

EncoderOutcomes == {"ok", "ctorThrows", "startThrows"}

\* getUserMedia of request n resolves and the rest of startRecording runs.
AcquireResolve(n) ==
  /\ acq[n] = "pending"
  /\ acq' = [acq EXCEPT ![n] = "resolved"]
  /\ \E supported \in BOOLEAN, dataArray \in FrequencyData, encoder \in EncoderOutcomes :
       Commit(startContinuation([Cur EXCEPT !.live = @ \cup {n}], n,
                                supported, dataArray, encoder))
  /\ UNCHANGED <<chatVars, pttVars, gumError, mounted, nReq, gumCalls,
                 onstop, delivered, nStop, failsafe, cancelledReq, afterCancel>>

\* The exceptions getUserMedia rejects with: the user declined access
\* (NotAllowedError) or no input device exists (NotFoundError), each with
\* the message the browser gives it.
AcquireErrors ==
  {[name |-> "NotAllowedError", message |-> "Permission denied"],
   [name |-> "NotFoundError", message |-> "Requested device not found"]}

\* catch and finally of startRecording: err.message is all the catch block
\* reads of the exception
startFailed(t, err) ==
  [cleanup([t EXCEPT !.error = DeniedError(err.message)]) EXCEPT !.isStarting = FALSE]

\* getUserMedia of request n rejects.
AcquireReject(n) ==
  /\ acq[n] = "pending"
  /\ acq' = [acq EXCEPT ![n] = "rejected"]
  /\ \E err \in AcquireErrors :
       /\ gumError' = [gumError EXCEPT ![n] = err]
       /\ Commit(startFailed(Cur, err))
  /\ UNCHANGED <<chatVars, pttVars, mounted, nReq, gumCalls,
                 onstop, delivered, nStop, failsafe, cancelledReq, afterCancel>>

\* The bytes of segment number i of recorder n; a segment may be empty.
Segment(n, i, size) == IF size > 0 THEN << <<n, i>> >> ELSE <<>>

\* mediaRecorder.ondataavailable
ondataavailable(t, data) ==
  IF Len(data) > 0 THEN [t EXCEPT !.chunksRef = Append(@, data)] ELSE t

\* Recorder n delivers a periodic segment (timeslice 100 ms), which holds
\* the audio of the slice.
DataAvailable(n) ==
  /\ recState[n] = "recording"
  /\ Len(delivered[n]) < MaxSegs
  /\ LET data == Segment(n, Len(delivered[n]) + 1, 1) IN
       /\ delivered' = [delivered EXCEPT ![n] = Append(@, data)]
       /\ Commit(ondataavailable(Cur, data))
  /\ UNCHANGED <<chatVars, pttVars, gumError, mounted, nReq, acq,
                 gumCalls, onstop, nStop, failsafe, cancelledReq, afterCancel>>

\* handleStop of stop call k: assemble the blob, clean up, resolve.
handleStop(t, k) ==
  LET blob == Blob(t.chunksRef)
      c == [cleanup(t) EXCEPT !.isRecording = FALSE, !.isStarting = FALSE]
  IN IF c.promise[k] = "pending"
     THEN [c EXCEPT !.promise = [@ EXCEPT ![k] = "blob"],
                    !.blobOf = [@ EXCEPT ![k] = blob]]
     ELSE c

\* stopRecording without an active recorder: clean up and resolve null.
stopIdle(t) ==
  [cleanup(t) EXCEPT !.isRecording = FALSE, !.isStarting = FALSE]

\* stopRecording with an active recorder, call number k: set onstop, stop
\* the recorder (it becomes inactive at once and queues its final
\* dataavailable + stop) and arm the 1 s failsafe.  recorder.stop() throws
\* only on an inactive recorder, which the guard excludes.
stopActive(t, k, recorder) ==
  [t EXCEPT !.promise = [@ EXCEPT ![k] = "pending"],
            !.recState = [@ EXCEPT ![recorder] = "inactive"],
            !.stopTask = @ \cup {recorder}]

\* stopRecording is called.  A call that finds no active recorder resolves
\* null at once and leaves no pending promise behind; the others are numbered.
stopRecording ==
  /\ mounted
  /\ LET recorder == mediaRecorderRef IN
       IF recorder = NULL \/ recState[recorder] = "inactive"
       THEN /\ Commit(stopIdle(Cur))
            /\ UNCHANGED <<onstop, failsafe, nStop>>
       ELSE /\ nStop < MaxStops
            /\ nStop' = nStop + 1
            /\ onstop' = [onstop EXCEPT ![recorder] = nStop + 1]
            /\ failsafe' = [failsafe EXCEPT ![nStop + 1] = "armed"]
            /\ Commit(stopActive(Cur, nStop + 1, recorder))
  /\ UNCHANGED <<chatVars, pttVars, gumError, mounted, nReq, acq, gumCalls, delivered, cancelledReq, afterCancel>>

\* The task the browser queued when recorder n was inactivated: the final
\* dataavailable (empty when nothing was captured since the last segment),
\* then the stop event (onstop, when a handler is set).
RecorderStopTask(n) ==
  /\ n \in stopTask
  /\ \E size \in {0, 1} :
       /\ size > 0 => Len(delivered[n]) < MaxSegs
       /\ LET data == Segment(n, Len(delivered[n]) + 1, size)
              a == ondataavailable([Cur EXCEPT !.stopTask = @ \ {n}], data)
          IN /\ delivered' = [delivered EXCEPT ![n] = Append(@, data)]
             /\ Commit(IF onstop[n] # NULL THEN handleStop(a, onstop[n]) ELSE a)
  /\ UNCHANGED <<chatVars, pttVars, gumError, mounted, nReq, acq,
                 gumCalls, onstop, nStop, failsafe, cancelledReq, afterCancel>>

\* The 1 s failsafe of stop call k fires.
FailsafeTimeout(k) ==
  /\ failsafe[k] = "armed"
  /\ failsafe' = [failsafe EXCEPT ![k] = "fired"]
  /\ Commit(IF streamRef # NULL THEN handleStop(Cur, k) ELSE Cur)
  /\ UNCHANGED <<chatVars, pttVars, gumError, mounted, nReq, acq,
                 gumCalls, onstop, delivered, nStop, cancelledReq, afterCancel>>

\* cancelRecording that forgets to call cleanup()
cancelBodyNoCleanup(t, closureIsStarting) ==
  LET a == IF closureIsStarting THEN [t EXCEPT !.isStartCancelledRef = TRUE] ELSE t
  IN [a EXCEPT !.isRecording = FALSE, !.isStarting = FALSE,
               !.recordingTime = 0, !.waveformData = ZeroWaveform,
               !.volume = Ratio(0, 1)]

\* cancelRecording, with the isStarting its closure captured
cancelBody(t, closureIsStarting) ==
  LET a == IF closureIsStarting THEN [t EXCEPT !.isStartCancelledRef = TRUE] ELSE t
  IN [cleanup(a) EXCEPT !.isRecording = FALSE, !.isStarting = FALSE,
                        !.recordingTime = 0, !.waveformData = ZeroWaveform,
                        !.volume = Ratio(0, 1)]

cancelRecording ==
  /\ mounted
  /\ Commit(cancelBody(Cur, isStarting))
  /\ cancelledReq' = cancelledReq \cup {n \in Requests : acq[n] = "pending"}
  /\ afterCancel' = TRUE
  /\ UNCHANGED <<chatVars, pttVars, gumError, mounted, nReq, acq,
                 gumCalls, onstop, delivered, nStop, failsafe>>

\* The animation frame scheduled by analysis loop n fires.
AnimationFrame(n) ==
  /\ n \in frames
  /\ \E dataArray \in FrequencyData :
       Commit(updateAnalysis([Cur EXCEPT !.frames = @ \ {n}], n, dataArray))
  /\ UNCHANGED <<chatVars, pttVars, gumError, mounted, nReq, acq,
                 gumCalls, onstop, delivered, nStop, failsafe, cancelledReq, afterCancel>>

\* The elapsed-time interval i fires: setRecordingTime(prev => prev + 1).
IntervalTick(i) ==
  /\ i \in intervals
  /\ mounted
  /\ recordingTime < MaxTime
  /\ Commit([Cur EXCEPT !.recordingTime = @ + 1])
  /\ UNCHANGED <<chatVars, pttVars, gumError, mounted, nReq, acq,
                 gumCalls, onstop, delivered, nStop, failsafe, cancelledReq, afterCancel>>

\* The component unmounts: the effect's cleanup runs.
Unmount ==
  /\ mounted
  /\ mounted' = FALSE
  /\ Commit(cleanup(Cur))
  /\ UNCHANGED <<chatVars, pttVars, gumError, nReq, acq,
                 gumCalls, onstop, delivered, nStop, failsafe, cancelledReq, afterCancel>>

Next ==
  \/ startRecording
  \/ \E n \in Requests : AcquireResolve(n)
  \/ \E n \in Requests : AcquireReject(n)
  \/ \E n \in Requests : DataAvailable(n)
  \/ stopRecording
  \/ \E n \in Requests : RecorderStopTask(n)
  \/ \E k \in StopCalls : FailsafeTimeout(k)
  \/ cancelRecording
  \/ \E n \in Requests : AnimationFrame(n)
  \/ \E i \in Requests : IntervalTick(i)
  \/ Unmount

Spec == Init /\ [][Next]_vars

\* Timers fire: the 1 s failsafe of every stop call eventually runs.  The
\* stop event of a recorder is not promised to arrive.
TimerFairness == \A k \in StopCalls : WF_vars(FailsafeTimeout(k))

SpecTimers == Init /\ [][Next]_vars /\ TimerFairness

\* ---------------------------------------------------------- push-to-talk
\* keydown of the V key outside an input (transcript-panel.tsx, down):
\* ignored while processing or while isKeyDownRef is set (e.repeat is the
\* key still held); otherwise it sets isKeyDownRef and, when not recording,
\* calls handleToggleListening, whose START branch returns while
\* processing or cleaning and else resets the timer and calls
\* startRecording, which has its own guard.
KeyDown ==
  /\ mounted /\ ~keyHeld
  /\ keyHeld' = TRUE
  /\ LET passes == ~(isProcessing \/ isKeyDownRef)
         starts == /\ passes /\ ~isRecording
                   /\ ~(isProcessing \/ isCleaningWithLLM)
                   /\ ~(isRecording \/ isStarting)
     IN /\ isKeyDownRef' = (isKeyDownRef \/ passes)
        /\ IF starts
           THEN /\ nReq < MaxStarts
                /\ nReq' = nReq + 1
                /\ acq' = [acq EXCEPT ![nReq + 1] = "pending"]
                /\ gumCalls' = [gumCalls EXCEPT ![nReq + 1] = @ + 1]
                /\ Commit([Cur EXCEPT !.recordingTime = 0, !.isStarting = TRUE,
                                      !.error = NoError,
                                      !.isStartCancelledRef = FALSE])
                /\ afterCancel' = FALSE
                /\ UNCHANGED <<gumError, onstop, delivered, nStop, failsafe,
                               cancelledReq>>
           ELSE UNCHANGED <<stateVars, refVars, envVars, cancelledReq, tickLog,
                            afterCancel>>
  /\ UNCHANGED <<chatVars, mounted, isProcessing, isCleaningWithLLM, upload>>

\* keyup of the V key (transcript-panel.tsx, up): clears isKeyDownRef and,
\* when isRecording, calls stopRecording and awaits its promise.
KeyUp ==
  /\ mounted /\ keyHeld
  /\ keyHeld' = FALSE
  /\ isKeyDownRef' = FALSE
  /\ IF isRecording
     THEN LET recorder == mediaRecorderRef IN
            IF recorder = NULL \/ recState[recorder] = "inactive"
            THEN /\ Commit(stopIdle(Cur))
                 /\ UNCHANGED <<onstop, failsafe, nStop, upload>>
            ELSE /\ nStop < MaxStops
                 /\ nStop' = nStop + 1
                 /\ onstop' = [onstop EXCEPT ![recorder] = nStop + 1]
                 /\ failsafe' = [failsafe EXCEPT ![nStop + 1] = "armed"]
                 /\ upload' = [upload EXCEPT ![nStop + 1] = "awaiting"]
                 /\ Commit(stopActive(Cur, nStop + 1, recorder))
     ELSE UNCHANGED <<stateVars, refVars, live, stopCount, recState, stopTask,
                      frames, intervals, promise, blobOf, tickLog, onstop,
                      failsafe, nStop, upload>>
  /\ UNCHANGED <<chatVars, mounted, nReq, acq, gumCalls, gumError, delivered,
                 cancelledReq, afterCancel, isProcessing, isCleaningWithLLM>>

\* The promise the keyup handler awaits is resolved with a blob: the handler
\* goes on and calls uploadAudio, which sets isProcessing and calls
\* transcribeAudio.
StopSettled(k) ==
  /\ upload[k] = "awaiting" /\ promise[k] = "blob"
  /\ upload' = [upload EXCEPT ![k] = "transcribing"]
  /\ isProcessing' = IF mounted THEN TRUE ELSE isProcessing
  /\ UNCHANGED <<chatVars, stateVars, refVars, envVars, mounted, cancelledReq,
                 tickLog, afterCancel, keyHeld, isKeyDownRef, isCleaningWithLLM>>

\* transcribeAudio of uploadAudio settles: it throws (catch: both flags
\* false), or it resolves: isProcessing false, and with useLLM and a
\* non-empty text isCleaningWithLLM true and cleanText is called.
TranscribeSettles(k) ==
  /\ upload[k] = "transcribing"
  /\ \E outcome \in {"throws", "plain", "clean"} :
       /\ upload' = [upload EXCEPT ![k] = IF outcome = "clean" THEN "cleaning"
                                         ELSE "done"]
       /\ isProcessing' = IF mounted THEN FALSE ELSE isProcessing
       /\ isCleaningWithLLM' =
            IF ~mounted \/ outcome = "plain" THEN isCleaningWithLLM
            ELSE outcome = "clean"
  /\ UNCHANGED <<chatVars, stateVars, refVars, envVars, mounted, cancelledReq,
                 tickLog, afterCancel, keyHeld, isKeyDownRef>>

\* cleanText of uploadAudio settles: isCleaningWithLLM false, and when it
\* threw the catch block sets isProcessing false too.
CleanSettles(k) ==
  /\ upload[k] = "cleaning"
  /\ \E ok \in BOOLEAN :
       /\ upload' = [upload EXCEPT ![k] = "done"]
       /\ isCleaningWithLLM' = IF mounted THEN FALSE ELSE isCleaningWithLLM
       /\ isProcessing' = IF mounted /\ ~ok THEN FALSE ELSE isProcessing
  /\ UNCHANGED <<chatVars, stateVars, refVars, envVars, mounted, cancelledReq,
                 tickLog, afterCancel, keyHeld, isKeyDownRef>>

PushToTalkNext ==
  \/ KeyDown
  \/ KeyUp
  \/ \E n \in Requests : AcquireResolve(n)
  \/ \E n \in Requests : AcquireReject(n)
  \/ \E n \in Requests : DataAvailable(n)
  \/ \E n \in Requests : RecorderStopTask(n)
  \/ \E k \in StopCalls : FailsafeTimeout(k)
  \/ \E n \in Requests : AnimationFrame(n)
  \/ \E i \in Requests : IntervalTick(i)
  \/ \E k \in StopCalls : StopSettled(k)
  \/ \E k \in StopCalls : TranscribeSettles(k)
  \/ \E k \in StopCalls : CleanSettles(k)

SpecPushToTalk == Init /\ [][PushToTalkNext]_vars

\* ------------------------------------------------- the analysis on its own
\* getUserMedia of request n resolves and the session starts recording, the
\* first updateAnalysis reading any of the magnitude arrays.
AnalysisStart(n) ==
  /\ acq[n] = "pending"
  /\ acq' = [acq EXCEPT ![n] = "resolved"]
  /\ \E dataArray \in Magnitudes :
       Commit(startContinuation([Cur EXCEPT !.live = @ \cup {n}], n,
                                TRUE, dataArray, "ok"))
  /\ UNCHANGED <<chatVars, pttVars, gumError, mounted, nReq, gumCalls,
                 onstop, delivered, nStop, failsafe, cancelledReq, afterCancel>>

\* The animation frame of analysis loop n fires and updateAnalysis reads
\* new magnitudes into its dataArray, whose length is fixed.
AnalysisFrame(n) ==
  /\ n \in frames
  /\ \E dataArray \in Magnitudes :
       /\ Len(dataArray) = Len(tickLog.data)
       /\ Commit(updateAnalysis([Cur EXCEPT !.frames = @ \ {n}], n, dataArray))
  /\ UNCHANGED <<chatVars, pttVars, gumError, mounted, nReq, acq,
                 gumCalls, onstop, delivered, nStop, failsafe, cancelledReq, afterCancel>>

AnalysisNext ==
  \/ startRecording
  \/ \E n \in Requests : AnalysisStart(n)
  \/ \E n \in Requests : AnalysisFrame(n)

SpecAnalysis == Init /\ [][AnalysisNext]_vars

\* ================================================================== chat
\* ------------------------------------------------------ chat: the decoder
\* decoder.decode(value, {stream: true}) of a TextDecoder holding the lead
\* byte `pending`: UTF-8, where "C3" "A9" are the two bytes of U+00E9, a
\* lead byte at the end of a chunk waits for the next chunk, and a lead byte
\* not followed by its continuation, or a continuation byte without its
\* lead byte, decodes to U+FFFD.
IsChar(c) == c # ""
decode(pending, bytes) ==
  LET in == (IF pending # "" THEN <<pending>> ELSE <<>>) \o bytes
      out == [i \in 1..Len(in) |->
                CASE in[i] = "C3" ->
                       IF i = Len(in) THEN ""
                       ELSE IF in[i + 1] = "A9" THEN "U+00E9" ELSE "U+FFFD"
                  [] in[i] = "A9" ->
                       IF i > 1 /\ in[i - 1] = "C3" THEN "" ELSE "U+FFFD"
                  [] OTHER -> in[i]]
  IN [text |-> SelectSeq(out, IsChar),
      pending |-> IF in # <<>> /\ in[Len(in)] = "C3" THEN "C3" ELSE ""]

\* text.split("\n")
RECURSIVE split(_)
split(text) ==
  IF \E i \in 1..Len(text) : text[i] = "\n"
  THEN LET i == CHOOSE i \in 1..Len(text) :
                  text[i] = "\n" /\ \A j \in 1..(i - 1) : text[j] # "\n"
       IN <<SubSeq(text, 1, i - 1)>> \o split(SubSeq(text, i + 1, Len(text)))
  ELSE <<text>>

\* line.startsWith(marker)
startsWith(line, marker) ==
  Len(line) >= Len(marker) /\ SubSeq(line, 1, Len(marker)) = marker

\* line.slice(n)
slice(line, n) == SubSeq(line, n + 1, Len(line))

\* s.trim()
WhiteSpace == {" ", "\r", "\t"}
RECURSIVE trimStart(_)
trimStart(s) ==
  IF s # <<>> /\ Head(s) \in WhiteSpace THEN trimStart(Tail(s)) ELSE s
RECURSIVE trimEnd(_)
trimEnd(s) ==
  IF s # <<>> /\ s[Len(s)] \in WhiteSpace
  THEN trimEnd(SubSeq(s, 1, Len(s) - 1)) ELSE s
trim(s) == trimEnd(trimStart(s))

\* a callback the async function makes
Call(cb, arg) == [cb |-> cb, arg |-> arg]

\* "Unknown error"
UnknownError == <<"Unknown error">>

\* the body of the for loop that calls onChunk for every data line, empty
\* payloads included
processLineEmptyChunks(d, line) ==
  IF startsWith(line, EventMarker)
  THEN LET name == trim(slice(line, 7)) IN
         IF name = DoneName
         THEN [d EXCEPT !.currentEvent = name, !.status = "returned",
                        !.emitted = Append(@, Call("onDone", <<>>))]
         ELSE [d EXCEPT !.currentEvent = name]
  ELSE IF startsWith(line, DataMarker)
  THEN LET data == slice(line, 6) IN
         IF d.currentEvent = ErrorName
         THEN [d EXCEPT !.status = "returned",
                        !.emitted = Append(@, Call("onError",
                                       IF data # <<>> THEN data ELSE UnknownError))]
         ELSE [d EXCEPT !.emitted = Append(@, Call("onChunk", data))]
  ELSE d

\* The body of the for loop over the complete lines (lines 385-399), on the
\* decoder locals d: an event line sets currentEvent and returns on "done",
\* a data line calls onError (and returns) or onChunk.
processLine(d, line) ==
  IF startsWith(line, EventMarker)
  THEN LET name == trim(slice(line, 7)) IN
         IF name = DoneName
         THEN [d EXCEPT !.currentEvent = name, !.status = "returned",
                        !.emitted = Append(@, Call("onDone", <<>>))]
         ELSE [d EXCEPT !.currentEvent = name]
  ELSE IF startsWith(line, DataMarker)
  THEN LET data == slice(line, 6) IN
         IF d.currentEvent = ErrorName
         THEN [d EXCEPT !.status = "returned",
                        !.emitted = Append(@, Call("onError",
                                       IF data # <<>> THEN data ELSE UnknownError))]
         ELSE IF data # <<>>
         THEN [d EXCEPT !.emitted = Append(@, Call("onChunk", data))]
         ELSE d
  ELSE d

\* for (const line of lines) that goes on after a return
RECURSIVE processLinesNoReturn(_, _)
processLinesNoReturn(d, lines) ==
  IF lines = <<>> THEN d
  ELSE processLinesNoReturn(processLine(d, Head(lines)), Tail(lines))

\* for (const line of lines), left by a return
RECURSIVE processLines(_, _)
processLines(d, lines) ==
  IF lines = <<>> \/ d.status # "reading" THEN d
  ELSE processLines(processLine(d, Head(lines)), Tail(lines))

\* one turn of the read loop that forgets the partial line kept in buffer
readChunkNoCarry(d, value) ==
  LET dec == decode(d.pending, value)
      lines == split(dec.text)
  IN processLines([d EXCEPT !.pending = dec.pending,
                            !.buffer = lines[Len(lines)],
                            !.emitted = <<>>],
                  SubSeq(lines, 1, Len(lines) - 1))

\* One turn of the read loop on the chunk `value` (lines 380-400): decode,
\* append to buffer, split, keep the last (partial) line in buffer, process
\* the complete lines.  emitted are the callbacks of this turn, in order.
readChunk(d, value) ==
  LET dec == decode(d.pending, value)
      lines == split(d.buffer \o dec.text)
  IN processLines([d EXCEPT !.pending = dec.pending,
                            !.buffer = lines[Len(lines)],
                            !.emitted = <<>>],
                  SubSeq(lines, 1, Len(lines) - 1))

\* ------------------------------------------------- chat: the panel handlers
\* The panel state and the exchanges as one record, so that the statements
\* of a handler compose in order.
Chat ==
  [messages |-> messages, loading |-> loading,
   streamingContent |-> streamingContent, abortRef |-> abortRef,
   exch |-> exch, mounted |-> chatMounted]

\* Writes the record back.  A state setter of an unmounted component does
\* nothing; the ref and the exchanges are written regardless.
CommitChat(p) ==
  /\ messages' = IF chatMounted THEN p.messages ELSE messages
  /\ loading' = IF chatMounted THEN p.loading ELSE loading
  /\ streamingContent' = IF chatMounted THEN p.streamingContent ELSE streamingContent
  /\ abortRef' = p.abortRef
  /\ exch' = p.exch

\* { role, content }
Msg(role, content) == [role |-> role, content |-> content]

\* setMessages((m) => [...m, { role: "assistant", content }]) by exchange e;
\* appended records what the exchange really added to the list
appendAssistant(p, e, content) ==
  [p EXCEPT !.messages = Append(@, Msg("assistant", content)),
            !.exch[e].appended = IF p.mounted THEN Append(@, content) ELSE @]

\* the onChunk callback that replaces fullResponse instead of appending
onChunkReplace(p, e, chunk) ==
  LET full == chunk IN
    [p EXCEPT !.exch[e].fullResponse = full,
              !.exch[e].calls = Append(@, Call("onChunk", chunk)),
              !.streamingContent = full]

\* the onChunk callback of send (lines 119-122)
onChunk(p, e, chunk) ==
  LET full == p.exch[e].fullResponse \o chunk IN
    [p EXCEPT !.exch[e].fullResponse = full,
              !.exch[e].calls = Append(@, Call("onChunk", chunk)),
              !.streamingContent = full]

\* the onDone callback of send (lines 123-128)
onDone(p, e) ==
  LET a == appendAssistant(p, e, p.exch[e].fullResponse) IN
    [a EXCEPT !.exch[e].calls = Append(@, Call("onDone", <<>>)),
              !.exch[e].phase = "terminal",
              !.streamingContent = <<>>,
              !.loading = FALSE,
              !.abortRef = NULL]

\* a request a client function sends: the endpoint, the message, the options
Request(endpoint, x) ==
  [endpoint |-> endpoint, message |-> x.text, options |-> x.options]

\* the onError callback that does not retry
onErrorNoFallback(p, e, msg) ==
  [p EXCEPT !.exch[e].calls = Append(@, Call("onError", msg)),
            !.exch[e].phase = "fallback"]

\* the onError callback of send up to its await (lines 129-132): it calls
\* sendChatMessage(text, chatOptions), which sends the non-streamed request
onError(p, e, msg) ==
  [p EXCEPT !.exch[e].calls = Append(@, Call("onError", msg)),
            !.exch[e].requests = Append(@, Request("/chat", p.exch[e])),
            !.exch[e].phase = "fallback"]

\* the finally block of onError without setLoading(false)
fallbackFinallyKeepsLoading(p, e) ==
  [p EXCEPT !.exch[e].phase = "terminal",
            !.streamingContent = <<>>,
            !.abortRef = NULL]

\* the finally block of onError (lines 138-142)
fallbackFinally(p, e) ==
  [p EXCEPT !.exch[e].phase = "terminal",
            !.streamingContent = <<>>,
            !.loading = FALSE,
            !.abortRef = NULL]

\* the rest of onError that appends the reply to what was streamed
fallbackResolvedMixed(p, e, reply) ==
  fallbackFinally(appendAssistant(p, e, p.exch[e].fullResponse \o reply), e)

\* the rest of onError when sendChatMessage resolved with reply (line 133)
fallbackResolved(p, e, reply) ==
  fallbackFinally(appendAssistant(p, e, reply), e)

\* the rest of onError when sendChatMessage threw (lines 134-137)
fallbackRejected(p, e, msg) ==
  fallbackFinally(appendAssistant(p, e, <<"Error: ">> \o msg), e)

\* the callbacks of one turn of the read loop reach the panel, in order
RECURSIVE deliver(_, _, _)
deliver(p, e, cbs) ==
  IF cbs = <<>> THEN p
  ELSE LET c == Head(cbs)
           q == CASE c.cb = "onChunk" -> onChunk(p, e, c.arg)
                  [] c.cb = "onDone" -> onDone(p, e)
                  [] c.cb = "onError" -> onError(p, e, c.arg)
       IN deliver(q, e, Tail(cbs))

\* an exception caught by the async function: its name and message
Exception(name, message) == [name |-> name, message |-> message]

\* the catch block that reports every exception
catchErrorNoAbortCheck(p, e, err, how) ==
  onError([p EXCEPT !.exch[e].ended = how], e, err.message)

\* the catch block of the async function (lines 404-409)
catchError(p, e, err, how) ==
  IF err.name = "AbortError"
  THEN [p EXCEPT !.exch[e].phase = "aborted", !.exch[e].ended = "abort"]
  ELSE onError([p EXCEPT !.exch[e].ended = how], e, err.message)

\* the guard of send that ignores loading
sendGuardNoLoading(text, closureLoading) == text # <<>>

\* if (!text || loading) return
sendGuard(text, closureLoading) == text # <<>> /\ ~closureLoading

\* the exchange is neither terminal nor abandoned
InFlight(x) == x.phase \in {"fetching", "reading", "fallback"}

\* buildChatOptions: the options of the transcript shown
chatOptions == currentTranscript

\* The body of send after its guard (lines 103-145) for exchange e:
\* streamChatMessage creates the controller, sends the streamed request and
\* returns the handle; the exchanges that are over are forgotten.
sendBody(p, e, text, options) ==
  LET x == [NoExchange EXCEPT !.phase = "fetching", !.text = text,
                              !.options = options]
      started == [x EXCEPT !.requests = <<Request("/chat/stream", x)>>]
  IN [p EXCEPT !.messages = Append(@, Msg("user", text)),
               !.loading = TRUE,
               !.streamingContent = <<>>,
               !.abortRef = e,
               !.exch = [i \in Exchanges |->
                           IF i = e THEN started
                           ELSE IF InFlight(p.exch[i]) THEN p.exch[i]
                           ELSE NoExchange]]

\* ------------------------------------------------------- chat: the actions
\* The user submits the text of the input (Enter or the send button).  The
\* updates of an event handler are rendered before the next event.
send ==
  /\ chatMounted
  /\ nSend < MaxSends
  /\ \E text \in Texts :
       /\ sendGuard(text, renderedLoading)
       /\ CommitChat(sendBody(Chat, nSend + 1, text, chatOptions))
  /\ nSend' = nSend + 1
  /\ renderedLoading' = TRUE
  /\ UNCHANGED <<recVars, currentTranscript, currentTranscriptIdRef,
                 chatMounted, nNav, loadPending>>

\* The panel re-renders after updates made outside an event handler.
Render ==
  /\ chatMounted
  /\ renderedLoading # loading
  /\ renderedLoading' = loading
  /\ UNCHANGED <<recVars, messages, loading, streamingContent, currentTranscript,
                 abortRef, currentTranscriptIdRef, chatMounted, nSend, nNav,
                 loadPending, exch>>

\* fetch of exchange e resolves with an ok response that has a body.
StreamOpens(e) ==
  /\ exch[e].phase = "fetching" /\ ~exch[e].aborted
  /\ \E body \in ChatBodies :
       exch' = [exch EXCEPT ![e].phase = "reading", ![e].body = body]
  /\ UNCHANGED <<recVars, messages, loading, streamingContent, currentTranscript,
                 abortRef, currentTranscriptIdRef, chatMounted, renderedLoading,
                 nSend, nNav, loadPending>>

\* fetch of exchange e rejects, or resolves with a non-ok status or without
\* a body: the async function throws before the first read.
StreamOpenFails(e) ==
  /\ exch[e].phase = "fetching" /\ ~exch[e].aborted
  /\ \E msg \in OpenErrors :
       CommitChat(catchError(Chat, e, Exception("Error", msg), "open"))
  /\ UNCHANGED <<recVars, currentTranscript, currentTranscriptIdRef, chatMounted,
                 renderedLoading, nSend, nNav, loadPending>>

\* what the decoder returned on: the last callback of the turn
EndedBy(d) ==
  IF d.status = "reading" THEN "no"
  ELSE IF d.emitted[Len(d.emitted)].cb = "onDone" THEN "done" ELSE "error"

\* reader.read() of exchange e resolves with the next k bytes of the body.
Read(e) ==
  /\ exch[e].phase = "reading" /\ ~exch[e].aborted
  /\ LET bytes == BodyBytes(exch[e].body) IN
       \E k \in 1..(Len(bytes) - exch[e].pos) :
         LET value == SubSeq(bytes, exch[e].pos + 1, exch[e].pos + k)
             d == readChunk(exch[e].decoder, value)
             p == [Chat EXCEPT !.exch[e].pos = @ + k,
                               !.exch[e].decoder = [d EXCEPT !.emitted = <<>>],
                               !.exch[e].ended = EndedBy(d)]
         IN CommitChat(deliver(p, e, d.emitted))
  /\ UNCHANGED <<recVars, currentTranscript, currentTranscriptIdRef, chatMounted,
                 renderedLoading, nSend, nNav, loadPending>>

\* reader.read() of exchange e resolves with done: the body is over, or the
\* connection was closed: the loop breaks and line 403 calls onDone().
ReadEnd(e) ==
  /\ exch[e].phase = "reading" /\ ~exch[e].aborted
  /\ CommitChat(onDone([Chat EXCEPT !.exch[e].ended = "eof"], e))
  /\ UNCHANGED <<recVars, currentTranscript, currentTranscriptIdRef, chatMounted,
                 renderedLoading, nSend, nNav, loadPending>>

\* reader.read() of exchange e rejects: the transport failed.
ReadFails(e) ==
  /\ exch[e].phase = "reading" /\ ~exch[e].aborted
  /\ CommitChat(catchError(Chat, e, Exception("TypeError", ReadError), "transport"))
  /\ UNCHANGED <<recVars, currentTranscript, currentTranscriptIdRef, chatMounted,
                 renderedLoading, nSend, nNav, loadPending>>

\* The pending fetch or read of an aborted exchange rejects with AbortError.
AbortObserved(e) ==
  /\ exch[e].phase \in {"fetching", "reading"} /\ exch[e].aborted
  /\ CommitChat(catchError(Chat, e, Exception("AbortError", <<"aborted">>), "abort"))
  /\ UNCHANGED <<recVars, currentTranscript, currentTranscriptIdRef, chatMounted,
                 renderedLoading, nSend, nNav, loadPending>>

\* sendChatMessage of exchange e resolves with data.reply.
FallbackResolves(e) ==
  /\ exch[e].phase = "fallback"
  /\ \E reply \in FallbackReplies : CommitChat(fallbackResolved(Chat, e, reply))
  /\ UNCHANGED <<recVars, currentTranscript, currentTranscriptIdRef, chatMounted,
                 renderedLoading, nSend, nNav, loadPending>>

\* sendChatMessage of exchange e throws (fetch, status or validation).
FallbackFails(e) ==
  /\ exch[e].phase = "fallback"
  /\ \E msg \in FallbackErrors : CommitChat(fallbackRejected(Chat, e, msg))
  /\ UNCHANGED <<recVars, currentTranscript, currentTranscriptIdRef, chatMounted,
                 renderedLoading, nSend, nNav, loadPending>>

\* hashchange to transcript id: loadTranscript up to its await (lines 26-38)
HashChange(id) ==
  /\ chatMounted
  /\ nNav < MaxNav
  /\ nNav' = nNav + 1
  /\ IF id # currentTranscriptIdRef
     THEN /\ messages' = <<>> /\ streamingContent' = <<>>
          /\ currentTranscriptIdRef' = id
     ELSE UNCHANGED <<messages, streamingContent, currentTranscriptIdRef>>
  /\ loadPending' = loadPending \cup {id}
  /\ UNCHANGED <<recVars, loading, currentTranscript, abortRef, chatMounted,
                 renderedLoading, nSend, exch>>

\* getTranscriptById(id) resolves: setCurrentTranscript (line 39)
TranscriptLoaded(id) ==
  /\ id \in loadPending
  /\ loadPending' = loadPending \ {id}
  /\ currentTranscript' = IF chatMounted THEN id ELSE currentTranscript
  /\ UNCHANGED <<recVars, messages, loading, streamingContent, abortRef,
                 currentTranscriptIdRef, chatMounted, renderedLoading, nSend,
                 nNav, exch>>

\* The panel unmounts: the effect's cleanup calls the handle in abortRef,
\* which aborts the controller of that exchange (lines 156-162).
ChatUnmount ==
  /\ chatMounted
  /\ chatMounted' = FALSE
  /\ exch' = IF abortRef # NULL
             THEN [exch EXCEPT ![abortRef].aborted = TRUE]
             ELSE exch
  /\ UNCHANGED <<recVars, messages, loading, streamingContent, currentTranscript,
                 abortRef, currentTranscriptIdRef, renderedLoading, nSend, nNav,
                 loadPending>>

ChatNext ==
  \/ send
  \/ Render
  \/ \E e \in Exchanges : StreamOpens(e)
  \/ \E e \in Exchanges : StreamOpenFails(e)
  \/ \E e \in Exchanges : Read(e)
  \/ \E e \in Exchanges : ReadEnd(e)
  \/ \E e \in Exchanges : ReadFails(e)
  \/ \E e \in Exchanges : AbortObserved(e)
  \/ \E e \in Exchanges : FallbackResolves(e)
  \/ \E e \in Exchanges : FallbackFails(e)
  \/ \E id \in TranscriptIds : HashChange(id)
  \/ \E id \in TranscriptIds : TranscriptLoaded(id)
  \/ ChatUnmount

SpecChat == Init /\ [][ChatNext]_vars

\* Every network request and read eventually completes: a pending fetch
\* settles; the reads of a body, which is finite, settle until one of them
\* returns done or fails, unless the loop returned before (an aborted read
\* settles with AbortError); and the pending non-streamed call settles.
ChatFairness ==
  \A e \in Exchanges :
    /\ WF_vars(StreamOpens(e) \/ StreamOpenFails(e))
    /\ WF_vars(ReadEnd(e) \/ ReadFails(e))
    /\ WF_vars(AbortObserved(e))
    /\ WF_vars(FallbackResolves(e) \/ FallbackFails(e))

SpecChatLive == Init /\ [][ChatNext]_vars /\ ChatFairness

\* ------------------------------------------------- the decoder on its own
\* The panel after send and after the streamed response arrived, for every
\* response body: exchange 1 is about to read.
DecoderInit ==
  /\ RecorderInit
  /\ currentTranscript = NULL /\ currentTranscriptIdRef = NULL
  /\ chatMounted = TRUE /\ renderedLoading = TRUE
  /\ nSend = 1 /\ nNav = 0 /\ loadPending = {}
  /\ \E body \in Bodies :
       LET p == sendBody([messages |-> <<>>, loading |-> FALSE,
                          streamingContent |-> <<>>, abortRef |-> NULL,
                          exch |-> [e \in Exchanges |-> NoExchange],
                          mounted |-> TRUE],
                         1, <<"q">>, NULL)
       IN /\ messages = p.messages /\ loading = p.loading
          /\ streamingContent = p.streamingContent /\ abortRef = p.abortRef
          /\ exch = [p.exch EXCEPT ![1].phase = "reading", ![1].body = body]

DecoderNext ==
  \/ Read(1)
  \/ ReadEnd(1)
  \/ ReadFails(1)

SpecDecoder == DecoderInit /\ [][DecoderNext]_vars


\* ------------------------------------------------------------------ claims

\* C1: a request cancelled while its getUserMedia was pending never uses the
\* stream that arrives later: once the acquisition has resolved the stream's
\* tracks are stopped, no MediaRecorder exists for it, no animation frame and
\* no interval of it is scheduled, and no ref holds it.
C1_CancelledStreamNeverUsed ==
  \A n \in cancelledReq :
    acq[n] = "resolved" =>
      /\ n \notin live
      /\ recState[n] = "none"
      /\ n \notin frames /\ n \notin intervals
      /\ streamRef # n /\ mediaRecorderRef # n

\* Nothing is held and the session is idle: no live stream, no stream or
\* recorder in the refs, no scheduled animation frame, no interval, and
\* isRecording = isStarting = false.
Released ==
  /\ live = {} /\ streamRef = NULL /\ mediaRecorderRef = NULL
  /\ frames = {} /\ animationFrameRef = NULL
  /\ intervals = {} /\ timerRef = NULL
  /\ ~isRecording /\ ~isStarting

\* Nothing that was in flight is left to run: no pending acquisition, no
\* queued recorder stop, no armed failsafe.
Settled ==
  /\ \A n \in Requests : acq[n] # "pending"
  /\ stopTask = {}
  /\ \A k \in StopCalls : failsafe[k] # "armed"

\* C2: after a cancelRecording, whatever it interrupted, once everything
\* that was in flight has completed and until the next start request,
\* nothing is held and the session is idle.
C2_CancelEndsReleased == (afterCancel /\ Settled) => Released

\* The session has ended: the hook is unmounted, or it is neither recording
\* nor starting.
SessionOver == ~mounted \/ (~isRecording /\ ~isStarting)

\* C3: every resource of a session is released exactly once: the tracks of
\* no stream are stopped twice, and once the session has ended no stream is
\* live, no animation frame is scheduled, no interval runs and no ref holds
\* a stream or a recorder.
C3_ReleasedExactlyOnce ==
  /\ \A n \in Requests : stopCount[n] <= 1
  /\ SessionOver =>
       /\ live = {} /\ frames = {} /\ intervals = {}
       /\ streamRef = NULL /\ mediaRecorderRef = NULL

\* C4 as claimed: streamRef and mediaRecorderRef are both non-null exactly
\* when the session is starting or recording (no stop requested), and both
\* null in every other state.
Stopping == \E k \in StopCalls : promise[k] = "pending"
C4_HandlesIffStartingOrRecording ==
  IF isStarting \/ (isRecording /\ ~Stopping)
  THEN streamRef # NULL /\ mediaRecorderRef # NULL
  ELSE streamRef = NULL /\ mediaRecorderRef = NULL

\* C4 as amended: streamRef and mediaRecorderRef are always both null or
\* both non-null, and while the hook is mounted they are non-null only if
\* isRecording is true (recording, or stopping until the stop is
\* acknowledged or forced); whenever isRecording is false - starting before
\* the stream arrives, idle, cancelled, failed - both are null.
C4_HandlesOnlyWhileRecording ==
  /\ (streamRef # NULL) <=> (mediaRecorderRef # NULL)
  /\ (mounted /\ ~isRecording) => (streamRef = NULL /\ mediaRecorderRef = NULL)

\* C4 witness: a stop was requested and is not acknowledged yet (stopping),
\* and both handles are still held.
C4_Witness ==
  /\ mounted /\ isRecording /\ Stopping
  /\ streamRef # NULL /\ mediaRecorderRef # NULL

\* The recorder a numbered stopRecording call stopped (NULL: none).
RecorderOf(k) ==
  IF \E n \in Requests : onstop[n] = k
  THEN CHOOSE n \in Requests : onstop[n] = k
  ELSE NULL

\* C5: when the failsafe of a stop call has fired while the recorder's stop
\* is still unacknowledged, the call's promise is resolved with the
\* concatenation, in delivery order, of the segments the recorder delivered,
\* and the stream, animation frame and interval of that session are released.
C5_ForcedFinalize ==
  \A k \in StopCalls :
    LET n == RecorderOf(k) IN
      (n # NULL /\ failsafe[k] = "fired" /\ n \in stopTask) =>
        /\ promise[k] = "blob"
        /\ blobOf[k] = Blob(delivered[n])
        /\ n \notin live /\ n \notin frames /\ n \notin intervals

\* s without its last element
Front(s) == SubSeq(s, 1, Len(s) - 1)

\* C6: the container a stop call resolves with is the concatenation, in
\* delivery order, of every segment its recorder delivered before the
\* finalize (all of them, or all but the final one when the failsafe
\* finalized before the recorder's stop task ran).
C6_ContainerIsAllSegments ==
  \A k \in StopCalls :
    LET n == RecorderOf(k) IN
      (n # NULL /\ promise[k] = "blob") =>
        \/ blobOf[k] = Blob(delivered[n])
        \/ /\ failsafe[k] = "fired" /\ n \notin stopTask
           /\ blobOf[k] = Blob(Front(delivered[n]))

\* What every cancelRecording does: the refs are nulled and what they held
\* is released, the session flags are false, and no promise is resolved.
CancelReleases ==
  /\ streamRef' = NULL /\ mediaRecorderRef' = NULL
  /\ animationFrameRef' = NULL /\ timerRef' = NULL
  /\ streamRef # NULL => streamRef \notin live'
  /\ animationFrameRef # NULL => animationFrameRef \notin frames'
  /\ timerRef # NULL => timerRef \notin intervals'
  /\ ~isRecording' /\ ~isStarting'
  /\ promise' = promise /\ blobOf' = blobOf

\* A stopRecording call has resolved with its container, or cancelRecording
\* has run, and since then nothing is held and no stop is pending.
AfterStopOrCancel ==
  /\ Released /\ ~Stopping
  /\ afterCancel \/ \E k \in StopCalls : promise[k] = "blob"

\* C7 as claimed: cancelRecording releases what is held and produces no
\* output, and called after stopRecording has resolved, or a second time in
\* a row, it changes no state.
C7_CancelIdempotentNoOp ==
  [][cancelRecording =>
       /\ CancelReleases
       /\ AfterStopOrCancel => UNCHANGED <<stateVars, refVars, envVars>>]_vars

\* C7 as amended: cancelRecording releases everything the refs hold and
\* resolves no promise; called when nothing is held and no stop is pending
\* (after stopRecording has resolved, or a second time in a row) it changes
\* no ref, no session flag and no browser object, but it still resets
\* recordingTime, volume and waveformData to zero.
C7_CancelReleasesAndResetsDisplay ==
  [][cancelRecording =>
       /\ CancelReleases
       /\ recordingTime' = 0 /\ volume' = Ratio(0, 1) /\ waveformData' = ZeroWaveform
       /\ (Released /\ ~Stopping) =>
            UNCHANGED <<isRecording, isStarting, error, refVars, envVars>>]_vars

\* C7 witness: cancelRecording ran after a stopRecording had resolved with
\* a container, and the session is idle with nothing held.
C7_Witness ==
  /\ afterCancel /\ Released /\ Settled
  /\ \E k \in StopCalls : promise[k] = "blob"
  /\ recordingTime = 0

\* C8: once the session has ended by stop, cancel or error (the mounted hook
\* is neither recording nor starting), no animation-frame callback remains
\* scheduled.
C8_NoFrameAfterSessionEnd ==
  (mounted /\ ~isRecording /\ ~isStarting) => frames = {}

\* C9 as claimed: every analysis tick runs with both the device stream and
\* the encoder in place.
C9_TicksOnlyOnceEncoderReady ==
  tickLog.ran => (tickLog.stream /\ tickLog.encoder)

\* C9 as amended: every analysis tick runs with the device stream in place
\* (never while the acquisition is still pending); the first tick of a
\* session runs before its MediaRecorder is created.
C9_TicksOnlyWithStream == tickLog.ran => tickLog.stream

\* C9 witness: a tick has run with the stream stored and no encoder yet.
C9_Witness == tickLog.ran /\ tickLog.stream /\ ~tickLog.encoder

\* The start request n fails in this step: its getUserMedia rejects, or it
\* resolves and the MediaRecorder cannot be created or started.
StartFails(n) ==
  /\ acq[n] = "pending"
  /\ \/ acq'[n] = "rejected"
     \/ acq'[n] = "resolved" /\ ~isStartCancelledRef /\ recState'[n] # "recording"

\* C10: when a start request fails while the hook is mounted, the error is
\* set, no new getUserMedia call is made, the stream and the refs are
\* released, and the session is idle.
C10_StartFailureIsTerminal ==
  [][\A n \in Requests :
       (mounted /\ StartFails(n)) =>
         /\ error' # NoError
         /\ gumCalls' = gumCalls
         /\ \A m \in Requests : acq'[m] = "pending" => acq[m] = "pending"
         /\ n \notin live'
         /\ streamRef' = NULL /\ mediaRecorderRef' = NULL
         /\ animationFrameRef' = NULL /\ timerRef' = NULL
         /\ ~isStarting' /\ ~isRecording']_vars

\* The getUserMedia call of request n rejects in this step.
Rejects(n) == acq[n] = "pending" /\ acq'[n] = "rejected"

Received(x) == SubSeq(BodyBytes(x.body), 1, x.pos)

\* The callbacks of an exchange that the frames caused: all of them but the
\* last one when it was made for the end of the body or for a failure.
FrameCalls(x) ==
  IF x.ended \in {"eof", "transport", "open"}
  THEN SubSeq(x.calls, 1, Len(x.calls) - 1)
  ELSE x.calls

\* C12: however the bytes received so far were split into chunks, the read
\* loop has made the callbacks, with the payloads and in the order, that it
\* makes when the same bytes arrive as one chunk, and while it is still
\* reading its partial line, event name and pending byte are the same too.
C12_FramingDeterminism ==
  \A e \in Exchanges :
    LET x == exch[e]
        whole == readChunk(NewDecoder, Received(x))
    IN /\ FrameCalls(x) = whole.emitted
       /\ x.phase = "reading" =>
            /\ x.decoder.buffer = whole.buffer
            /\ x.decoder.currentEvent = whole.currentEvent
            /\ x.decoder.pending = whole.pending

\* C12 witness: after a frame was delivered, a chunk ended inside the data
\* marker of the next line.
C12_Witness ==
  /\ exch[1].phase = "reading"
  /\ exch[1].calls = <<Call("onChunk", Hello)>>
  /\ exch[1].decoder.buffer = SubSeq(DataMarker, 1, 3)

\* The number of leading lines of body that fit, line feed included, in
\* the first n bytes.
RECURSIVE LinesWithin(_, _)
LinesWithin(body, n) ==
  IF body = <<>> THEN 0
  ELSE LET len == Len(WireLines[Head(body)].bytes) + 1 IN
         IF len <= n THEN 1 + LinesWithin(Tail(body), n - len) ELSE 0

\* The lines of the body an exchange has received completely.
CompleteLines(x) == SubSeq(x.body, 1, LinesWithin(x.body, x.pos))

\* The stream of the exchange reached its terminal done event.
ReachedDoneEvent(x) ==
  \E i \in 1..Len(CompleteLines(x)) :
    WireLines[CompleteLines(x)[i]].name = DoneName

\* The exchange made this callback.
Called(x, cb) == \E i \in 1..Len(x.calls) : x.calls[i].cb = cb

\* C13: a streamed reply is reported as done (onDone is called, and the
\* text streamed so far is appended as the assistant message) only when the
\* stream reached its done event; a stream that ends before it is never
\* presented as the complete reply.
C13_DoneOnlyAfterDoneEvent ==
  \A e \in Exchanges :
    Called(exch[e], "onDone") => ReachedDoneEvent(exch[e])

\* The streamed path of the exchange failed: an error frame, a transport
\* failure during a read, or a failure before the first read (fetch
\* rejected, non-success status, no body).
StreamFailed(x) == x.ended \in {"error", "transport", "open"}

\* The number of onDone and onError callbacks the exchange made.
Outcomes(x) ==
  Cardinality({i \in 1..Len(x.calls) : x.calls[i].cb \in {"onDone", "onError"}})

\* C14: an exchange calls at most one of onDone and onError, once; when
\* its streamed path has failed it has called onError and not onDone, and
\* it has sent exactly one non-streamed request, with the message and the
\* options of the streamed request; otherwise it has sent none.
C14_OneFallbackOneOutcome ==
  \A e \in Exchanges :
    LET x == exch[e] IN
      /\ Outcomes(x) <= 1
      /\ StreamFailed(x) =>
           /\ Outcomes(x) = 1 /\ Called(x, "onError")
           /\ Len(x.requests) = 2
           /\ x.requests[1].endpoint = "/chat/stream"
           /\ x.requests[2] = [x.requests[1] EXCEPT !.endpoint = "/chat"]
      /\ (x.phase # "none" /\ ~StreamFailed(x)) =>
           /\ Len(x.requests) = 1
           /\ x.requests[1].endpoint = "/chat/stream"

\* C14 witness: the stream delivered an error frame, the one fallback call
\* was made with the options of the streamed request although the
\* transcript shown has changed since, and it has completed.
C14_Witness ==
  \E e \in Exchanges :
    /\ exch[e].ended = "error" /\ exch[e].phase = "terminal"
    /\ Len(exch[e].requests) = 2
    /\ exch[e].requests[2].options = NULL /\ currentTranscript # NULL

\* The payloads of the onChunk callbacks of a callback list, concatenated
\* in call order.
RECURSIVE ChunkText(_)
ChunkText(calls) ==
  IF calls = <<>> THEN <<>>
  ELSE (IF Head(calls).cb = "onChunk" THEN Head(calls).arg ELSE <<>>)
       \o ChunkText(Tail(calls))

\* What a fallback call can add to the list: its reply, or its error entry.
FallbackResults ==
  FallbackReplies \cup {<<"Error: ">> \o msg : msg \in FallbackErrors}

\* C15: an exchange appends at most one assistant message.  When its
\* streamed path failed, also after chunks were delivered, that message is
\* the result of the fallback call alone, and once the exchange is over
\* nothing of the streamed text is displayed any more; when it did not
\* fail, the message is the streamed text alone.
C15_StreamedOrFallbackNeverMixed ==
  \A e \in Exchanges :
    LET x == exch[e] IN
      /\ Len(x.appended) <= 1
      /\ \A i \in 1..Len(x.appended) :
           IF StreamFailed(x)
           THEN x.appended[i] \in FallbackResults
           ELSE x.appended[i] = ChunkText(x.calls)
      /\ (chatMounted /\ x.phase = "terminal") => streamingContent = <<>>

\* C15 witness: chunks were delivered, then the streamed path failed, and
\* the assistant message of the exchange is the fallback reply.
C15_Witness ==
  \E e \in Exchanges :
    /\ Called(exch[e], "onChunk") /\ StreamFailed(exch[e])
    /\ exch[e].phase = "terminal"
    /\ exch[e].appended \in {<<reply>> : reply \in FallbackReplies}
    /\ messages[Len(messages)].content \in FallbackReplies

\* The cancellation handle of the exchange was invoked while its streamed
\* path was still running (fetch or a read pending).
AbortedMidStream(x) == x.aborted /\ x.ended \in {"no", "abort"}

\* C16: once the cancellation handle has been invoked mid-stream, the
\* exchange makes no further callback (no onChunk, no onDone, no onError),
\* appends no message and sends no fallback request: it has called neither
\* onDone nor onError and its only request is the streamed one.
C16_CancelStopsConsumption ==
  [][\A e \in Exchanges :
       AbortedMidStream(exch'[e]) =>
         /\ exch'[e].calls = exch[e].calls
         /\ exch'[e].appended = exch[e].appended
         /\ exch'[e].requests = exch[e].requests
         /\ Outcomes(exch'[e]) = 0
         /\ Len(exch'[e].requests) = 1]_vars

\* C16 witness: the handle was invoked after two onChunk calls and the
\* pending read has rejected with AbortError.
C16_Witness ==
  \E e \in Exchanges :
    /\ exch[e].aborted /\ exch[e].ended = "abort" /\ exch[e].phase = "aborted"
    /\ exch[e].calls = <<Call("onChunk", Hello), Call("onChunk", World)>>

\* The body is data lines with non-empty payloads followed by the done
\* event.
DataThenDone(body) ==
  /\ body # <<>>
  /\ WireLines[body[Len(body)]].name = DoneName
  /\ \A i \in 1..(Len(body) - 1) :
       WireLines[body[i]].kind = "data" /\ WireLines[body[i]].payload # <<>>

\* The payloads of the lines of a body, concatenated in stream order.
RECURSIVE PayloadText(_)
PayloadText(body) ==
  IF body = <<>> THEN <<>>
  ELSE WireLines[Head(body)].payload \o PayloadText(Tail(body))

RECURSIVE WireCalls(_, _, _)
WireCalls(lines, event, emptyFrames) ==
  IF lines = <<>> THEN <<>>
  ELSE LET l == WireLines[Head(lines)] IN
    CASE l.kind = "event" ->
           IF l.name = DoneName THEN <<Call("onDone", <<>>)>>
           ELSE WireCalls(Tail(lines), l.name, emptyFrames)
      [] l.kind = "data" ->
           IF event = ErrorName
           THEN <<Call("onError", IF l.payload # <<>> THEN l.payload
                                  ELSE UnknownError)>>
           ELSE (IF l.payload # <<>> \/ emptyFrames
                 THEN <<Call("onChunk", l.payload)>> ELSE <<>>)
                \o WireCalls(Tail(lines), event, emptyFrames)
      [] OTHER -> WireCalls(Tail(lines), event, emptyFrames)

\* The event name in force after a list of complete lines.
RECURSIVE WireEvent(_, _)
WireEvent(lines, event) ==
  IF lines = <<>> THEN event
  ELSE WireEvent(Tail(lines),
                 IF WireLines[Head(lines)].kind = "event"
                 THEN WireLines[Head(lines)].name ELSE event)

\* C18 as claimed: an event line sets the current event name (initially
\* "message") for the data lines after it, every data line yields exactly
\* one frame with the rest of the line as payload, an empty payload
\* included, and every other line yields nothing and changes nothing.
C18_OneFramePerDataLine ==
  \A e \in Exchanges :
    LET x == exch[e] IN
      /\ FrameCalls(x) = WireCalls(CompleteLines(x), MessageName, TRUE)
      /\ x.phase = "reading" =>
           x.decoder.currentEvent = WireEvent(CompleteLines(x), MessageName)

\* C18 as amended: an event line sets the current event name (initially
\* "message", trimmed of white space) for the data lines after it, and
\* ends the exchange by onDone when the name is done; a data line with a
\* non-empty payload yields exactly one callback with the rest of the line
\* as payload (onError under the error event, onChunk otherwise); a data
\* line with an empty payload yields no onChunk (under the error event it
\* yields onError("Unknown error")); every other line yields nothing and
\* changes nothing.
C18_OneCallbackPerNonEmptyDataLine ==
  \A e \in Exchanges :
    LET x == exch[e] IN
      /\ FrameCalls(x) = WireCalls(CompleteLines(x), MessageName, FALSE)
      /\ x.phase = "reading" =>
           x.decoder.currentEvent = WireEvent(CompleteLines(x), MessageName)

\* C18 witness: a data line with an empty payload and a blank line were
\* read without any callback, and the data line after them was delivered.
C18_Witness ==
  /\ Len(exch[1].body) = 3 /\ CompleteLines(exch[1]) = exch[1].body
  /\ WireLines[exch[1].body[1]].kind = "data"
  /\ WireLines[exch[1].body[1]].payload = <<>>
  /\ WireLines[exch[1].body[2]].kind = "other"
  /\ exch[1].phase = "reading"
  /\ exch[1].calls = <<Call("onChunk", Hello)>>

\* The callbacks end with onDone or onError.
Terminal(calls) ==
  calls # <<>> /\ calls[Len(calls)].cb \in {"onDone", "onError"}

\* The index of the line of `lines` that carries the terminal event - a
\* done event line, or a data line under the error event - or 0.
TerminalLine(lines) ==
  LET ends(n) == Terminal(WireCalls(SubSeq(lines, 1, n), MessageName, FALSE))
  IN IF \E n \in 1..Len(lines) : ends(n)
     THEN CHOOSE n \in 1..Len(lines) :
            ends(n) /\ \A m \in 1..(n - 1) : ~ends(m)
     ELSE 0

\* onDone or onError, if called, was the last callback of the exchange.
NothingAfterTerminal(x) ==
  \A i \in 1..Len(x.calls) :
    x.calls[i].cb \in {"onDone", "onError"} => i = Len(x.calls)

\* C19 as claimed: a decoded done event ends the exchange by onDone, a
\* decoded error event ends it by onError with the payload as the error
\* message, and after either no onChunk, onDone or onError is called again,
\* whatever bytes follow.
C19_ErrorPayloadIsTheMessage ==
  \A e \in Exchanges :
    LET x == exch[e]
        L == CompleteLines(x)
        n == TerminalLine(L)
    IN /\ n > 0 =>
            /\ x.phase # "reading"
            /\ x.calls # <<>>
            /\ x.calls[Len(x.calls)] =
                 IF WireLines[L[n]].kind = "event" THEN Call("onDone", <<>>)
                 ELSE Call("onError", WireLines[L[n]].payload)
       /\ NothingAfterTerminal(x)

\* C19 as amended: a done event line ends the exchange by onDone at once;
\* the first data line under the error event ends it by onError, whose
\* message is the payload, or "Unknown error" when the payload is empty;
\* after either, no onChunk, onDone or onError is called again, whatever
\* bytes follow.
C19_TerminalEventEndsExchange ==
  \A e \in Exchanges :
    LET x == exch[e]
        L == CompleteLines(x)
        n == TerminalLine(L)
    IN /\ n > 0 =>
            /\ x.phase # "reading"
            /\ x.calls # <<>>
            /\ x.calls[Len(x.calls)] =
                 IF WireLines[L[n]].kind = "event" THEN Call("onDone", <<>>)
                 ELSE Call("onError", IF WireLines[L[n]].payload # <<>>
                                      THEN WireLines[L[n]].payload
                                      ELSE UnknownError)
            /\ x.ended = IF WireLines[L[n]].kind = "event" THEN "done"
                         ELSE "error"
       /\ NothingAfterTerminal(x)

\* C19 witness: an error event with an empty payload ended the exchange by
\* onError("Unknown error"), and the data line received after it in the
\* same chunk caused no callback.
C19_Witness ==
  /\ Len(exch[1].body) = 3
  /\ CompleteLines(exch[1]) = exch[1].body
  /\ WireLines[exch[1].body[1]].name = ErrorName
  /\ WireLines[exch[1].body[2]].kind = "data"
  /\ WireLines[exch[1].body[2]].payload = <<>>
  /\ WireLines[exch[1].body[3]].payload = Hello
  /\ exch[1].calls = <<Call("onError", UnknownError)>>
  /\ exch[1].ended = "error"

\* The exchanges of the conversation that are running.
Running == {e \in Exchanges : InFlight(exch[e])}

EndedWithOneOutcome(e) ==
  /\ exch[e].phase = "terminal"
  /\ Len(exch[e].appended) = 1
  /\ ~loading /\ abortRef = NULL

\* C21: when the streamed path has failed and the fallback request fails
\* too, the failure is appended as one explicit `Error: ...` entry; and,
\* every request and read completing, every submitted message of a panel
\* that stays mounted leads to an exchange that is terminal with exactly
\* one assistant message appended, loading false and the handle cleared.
C21_EveryExchangeEndsWithOneOutcome ==
  /\ [][\A e \in Exchanges :
         (chatMounted /\ FallbackFails(e)) =>
           \E msg \in FallbackErrors :
             /\ exch'[e].appended = << <<"Error: ">> \o msg >>
             /\ messages' = Append(messages, Msg("assistant", <<"Error: ">> \o msg))
             /\ exch'[e].phase = "terminal" /\ ~loading' /\ abortRef' = NULL]_vars
  /\ \A e \in Exchanges :
       InFlight(exch[e]) ~> (~chatMounted \/ EndedWithOneOutcome(e))

\* C21 witness: the streamed path failed, the fallback failed too, and the
\* exchange is over with the one failure entry.
C21_Witness ==
  /\ chatMounted
  /\ EndedWithOneOutcome(1)
  /\ exch[1].ended \in {"error", "transport", "open"}
  /\ exch[1].appended = << <<"Error: ", "Request failed">> >>
  /\ messages[Len(messages)] = Msg("assistant", <<"Error: ", "Request failed">>)

\* The sum of the magnitudes the last analysis tick read.
TickSum == SumSeq(tickLog.data)

\* C22: for every magnitude array an analysis tick reads, the published
\* volume lies in [0,100], and it is 2 * 100 * mean / 255, or 100 when
\* that exceeds 100 (the mean being the sum over the length).
C22_VolumeClamped ==
  /\ volume.num >= 0 /\ volume.den > 0 /\ volume.num <= 100 * volume.den
  /\ tickLog.ran =>
       IF 2 * 100 * TickSum <= 100 * 255 * Len(tickLog.data)
       THEN volume.num * 255 * Len(tickLog.data) = volume.den * 2 * 100 * TickSum
       ELSE volume.num = 100 * volume.den

\* C22 witness: a tick read a saturated array of the build's length, whose
\* boosted mean is 200, and published 100; the clamp acted.
C22_Witness ==
  /\ tickLog.ran
  /\ tickLog.data = [i \in 1..BufferLength |-> 255]
  /\ volume = Ratio(100, 1)

\* C23: the waveform every analysis tick publishes has WaveformBars
\* entries whatever the length of the magnitude array, and entry i
\* (counted from 0) is the one sample at index i * stride, with stride the
\* integer quotient of the array length by WaveformBars.
C23_WaveformFixedLengthStrided ==
  /\ Len(waveformData) = WaveformBars
  /\ tickLog.ran =>
       LET stride == Len(tickLog.data) \div WaveformBars IN
         \A i \in 0..(WaveformBars - 1) :
           waveformData[i + 1] = tickLog.data[i * stride + 1]

\* C23 witness: a tick read a ramp twice as long as the waveform, and the
\* bars are every second sample of it.
C23_Witness ==
  /\ tickLog.ran
  /\ Len(tickLog.data) = 2 * WaveformBars
  /\ tickLog.data[2] = 2 /\ tickLog.data[3] = 3
  /\ waveformData[1] = 1 /\ waveformData[2] = 3

\* The failsafe timer or the onstop handler armed by stop call k runs in
\* this step.
StopCallbackRuns(k) ==
  \/ FailsafeTimeout(k)
  \/ RecorderOf(k) # NULL /\ RecorderStopTask(RecorderOf(k))

\* C24: the failsafe timer and the onstop handler armed by one
\* stopRecording call act only on the session that call stopped: when they
\* run while the refs hold the stream of another, newer session, they do
\* not run cleanup on it, stop its tracks or set isRecording false.
C24_StopCallbacksActOnOwnSession ==
  [][\A k \in StopCalls :
       (StopCallbackRuns(k) /\ streamRef # NULL /\ streamRef # RecorderOf(k)) =>
         /\ streamRef' = streamRef /\ mediaRecorderRef' = mediaRecorderRef
         /\ live' = live /\ frames' = frames /\ intervals' = intervals
         /\ isRecording' = isRecording]_vars

\* C25: every promise returned by stopRecording eventually resolves, also
\* when the stop event of the recorder never arrives, under every
\* interleaving with the failsafe timer and cancelRecording.
C25_EveryStopPromiseResolves ==
  \A k \in StopCalls : (promise[k] = "pending") ~> (promise[k] # "pending")

\* C26: at most one acquired stream has live tracks at any time, and every
\* stream getUserMedia returned is stopped in the end: while the hook is
\* mounted, once the session is idle and nothing is in flight, no stream
\* is live.
C26_AtMostOneLiveStream ==
  mounted =>
    /\ Cardinality(live) <= 1
    /\ (~isRecording /\ ~isStarting /\ Settled) => live = {}

\* The acquisition of request n resolves in this step, after the session
\* was returned to idle while the request was starting and before any new
\* start request.
ResolvesAfterIdle(n) ==
  /\ acq[n] = "pending" /\ acq'[n] = "resolved"
  /\ ~isStarting /\ ~isRecording

\* C27: after stopRecording was called while the session was starting and
\* has returned it to idle, the acquisition that was pending does not turn
\* the session into recording when it resolves: isRecording stays false, no
\* stream or recorder is held, and the arriving stream is not left live.
C27_StopWhileStartingStaysIdle ==
  [][\A n \in Requests :
       (mounted /\ ResolvesAfterIdle(n)) =>
         /\ ~isRecording'
         /\ streamRef' = NULL /\ mediaRecorderRef' = NULL
         /\ n \notin live']_vars

\* The recorders whose segments make up these bytes.
RecordersIn(bytes) == {bytes[i][1] : i \in 1..Len(bytes)}

\* C28: the chunk buffer of a session holds only segments of that session's
\* recorder, and the container a stop call resolves with holds only
\* segments of the recorder it stopped; a segment an earlier recorder
\* delivers late is not among them.
C28_OnlyOwnSegments ==
  /\ mediaRecorderRef # NULL =>
        RecordersIn(Blob(chunksRef)) \subseteq {mediaRecorderRef}
  /\ \A k \in StopCalls :
       (promise[k] = "blob" /\ RecorderOf(k) # NULL) =>
         RecordersIn(blobOf[k]) \subseteq {RecorderOf(k)}

\* C29: push-to-talk: once the V key is up again and everything that was
\* in flight has completed, no session is starting or recording and no
\* stream is live, also when the key was released while the session was
\* still starting.
C29_NoSessionWhileKeyUp ==
  (~keyHeld /\ Settled) => (~isRecording /\ ~isStarting /\ live = {})

\* C30: an assistant reply is appended only to the message list of the
\* conversation in which its user message was sent: every assistant
\* message of the list stands right after the user message it answers,
\* also when the selected transcript changed, and the list was cleared,
\* while the exchange was in flight.
C30_ReplyStaysInItsConversation ==
  \A i \in 1..Len(messages) :
    messages[i].role = "assistant" =>
      i > 1 /\ messages[i - 1].role = "user"
====
